---- MODULE Spec2Model ----
(***************************************************************************)
(* MLR_dummy.ipynb: OLS regression with binary (dummy) explanatory         *)
(* variables.  The notebook's state is the set of Python names its cells   *)
(* bind: data (the frame read from WAGE.csv), data_in (the frame with the  *)
(* dummies) and model_est (the last fitted model).  Every code cell is an  *)
(* action; cells may be run in any order, and a cell that raises leaves    *)
(* the names bound before the raising statement as they are.               *)
(*                                                                         *)
(* Numbers are exact: a coefficient is a fraction <<n, d>> in lowest terms *)
(* with d > 0, so the float64 rounding of the library is not modelled.     *)
(***************************************************************************)
EXTENDS Integers, Sequences, FiniteSets, TLC

VARIABLES data, data_in, model_est

vars == <<data, data_in, model_est>>

(***************************************************************************)
(* Bounds of the data sets.                                                *)
(***************************************************************************)
MaxExtra == 5

(***************************************************************************)
(* Exact rational arithmetic.                                              *)
(***************************************************************************)
Abs(x) == IF x < 0 THEN -x ELSE x

RECURSIVE GCD(_, _)
GCD(a, b) == IF b = 0 THEN a ELSE GCD(b, a % b)

Frac(n, d) ==
    LET g == GCD(Abs(n), Abs(d))
        s == IF d < 0 THEN -1 ELSE 1
    IN  <<(s * n) \div g, (s * d) \div g>>

FZero == <<0, 1>>

FInt(k) == <<k, 1>>

FAdd(p, q) ==
    LET g == GCD(p[2], q[2])
    IN  Frac(p[1] * (q[2] \div g) + q[1] * (p[2] \div g), (p[2] \div g) * q[2])

FNeg(p) == <<-p[1], p[2]>>

FSub(p, q) == FAdd(p, FNeg(q))

\* cross-cancelled, so that the product of two reduced fractions is reduced
FMul(p, q) ==
    IF p[1] = 0 \/ q[1] = 0 THEN FZero
    ELSE LET g1 == GCD(Abs(p[1]), q[2])
             g2 == GCD(Abs(q[1]), p[2])
         IN  <<(p[1] \div g1) * (q[1] \div g2), (p[2] \div g2) * (q[2] \div g1)>>

FInv(p) == IF p[1] < 0 THEN <<-p[2], -p[1]>> ELSE <<p[2], p[1]>>

FDiv(p, q) == FMul(p, FInv(q))

RECURSIVE FSum(_, _)
FSum(f, n) == IF n = 0 THEN FZero ELSE FAdd(FSum(f, n - 1), f[n])

RECURSIVE Sum(_, _)
Sum(f, n) == IF n = 0 THEN 0 ELSE Sum(f, n - 1) + f[n]

(***************************************************************************)
(* Matrices are sequences of rows of fractions.                            *)
(***************************************************************************)
\* the element of a singleton; {e(x) : x \in {v}} evaluates v once
The(S) == CHOOSE r \in S : TRUE

\* a sequence given as a function on 1..n, as a tuple
T(f) == <<>> \o f

\* a function given by a rule, as the table of its values
Fn(f) == f @@ <<>>

NRows(M) == Len(M)

NCols(M) == IF Len(M) = 0 THEN 0 ELSE Len(M[1])

Transpose(M) == T([j \in 1..NCols(M) |-> T([i \in 1..NRows(M) |-> M[i][j]])])

MatMul(A, B) ==
    T([i \in 1..NRows(A) |->
        T([j \in 1..NCols(B) |->
            FSum(T([k \in 1..NCols(A) |-> FMul(A[i][k], B[k][j])]), NCols(A))])])

\* the matrix A with the column vector v appended
Augment(A, v) == T([i \in 1..NRows(A) |-> Append(A[i], v[i])])

ColVec(v) == T([i \in 1..Len(v) |-> <<v[i]>>])

Min(S) == CHOOSE x \in S : \A y \in S : x <= y

\* Gauss-Jordan elimination from pivot row r and column c on: the reduced
\* row echelon form of M
RECURSIVE RREF(_, _, _)
RREF(M, r, c) ==
    IF r > NRows(M) \/ c > NCols(M) THEN M
    ELSE LET cand == {i \in r..NRows(M) : M[i][c][1] # 0}
         IN  IF cand = {} THEN RREF(M, r, c + 1)
             ELSE LET p == Min(cand)
                      S == [M EXCEPT ![r] = M[p], ![p] = M[r]]
                      prow == T([j \in 1..NCols(M) |-> FDiv(S[r][j], S[r][c])])
                      E == T([i \in 1..NRows(M) |->
                              IF i = r THEN prow
                              ELSE IF S[i][c][1] = 0 THEN S[i]
                              ELSE T([j \in 1..NCols(M) |->
                                      FSub(S[i][j], FMul(S[i][c], prow[j]))])])
                  IN  RREF(E, r + 1, c + 1)

\* the solution x of the square non-singular system A x = v
Solve(A, v) ==
    LET R == RREF(Augment(A, v), 1, 1)
    IN  T([i \in 1..NRows(A) |-> R[i][NCols(A) + 1]])

IsZeroRow(row) == \A j \in 1..Len(row) : row[j][1] = 0

\* the non-zero rows of a matrix in echelon form, which come first
NonZeroRows(R) == SelectSeq(R, LAMBDA row : ~IsZeroRow(row))

Column(M, j) == T([i \in 1..NRows(M) |-> M[i][j]])

\* the column of the leading entry of a non-zero row
Lead(row) == Min({j \in 1..Len(row) : row[j][1] # 0})

\* the columns of X where the rows of F lead
PivotColumns(X, F) ==
    T([i \in 1..NRows(X) |-> T([k \in 1..NRows(F) |-> X[i][Lead(F[k])]])])

\* pinv_dot by elimination on the normal equations, as if X'X were never
\* singular
normal_equations_solve(X, y) ==
    Solve(MatMul(Transpose(X), X), Column(MatMul(Transpose(X), ColVec(y)), 1))

(***************************************************************************)
(* numpy.linalg.pinv(X) @ y, the solver behind OLS.fit(): the least        *)
(* squares solution of minimum norm, by the rank factorisation X = C F     *)
(* (F the non-zero rows of the echelon form of X, C the pivot columns of   *)
(* X): pinv(X) = F' (F F')^-1 (C' C)^-1 C'.  When X has full column rank   *)
(* F is the identity and this is (X'X)^-1 X'y.                             *)
(***************************************************************************)
pinv_dot(X, y) ==
    The({IF Len(F) = 0 THEN T([j \in 1..NCols(X) |-> FZero])
         ELSE The({The({The({Column(Ftv, 1)
                             : Ftv \in {MatMul(Transpose(F), ColVec(v))}})
                        : v \in {Solve(MatMul(F, Transpose(F)), u)}})
                   : u \in {The({Solve(MatMul(Transpose(C), C),
                                       Column(MatMul(Transpose(C), ColVec(y)), 1))
                                 : C \in {PivotColumns(X, F)}})}})
         : F \in {NonZeroRows(RREF(X, 1, 1))}})

(***************************************************************************)
(* Frames.  A frame is a sequence of rows; a row is a function from the    *)
(* frame's column names to integers.  NoFrame is a name not yet bound.     *)
(***************************************************************************)
NoFrame == <<>>

Columns(frame) == DOMAIN frame[1]

\* the 24 columns of WAGE.csv
DataColumns ==
    {"wage", "educ", "exper", "tenure", "nonwhite", "female", "married",
     "numdep", "smsa", "northcen", "south", "west", "construc", "ndurman",
     "trcommpu", "trade", "services", "profserv", "profocc", "clerocc",
     "servocc", "lwage", "expersq", "tenursq"}

\* a row of WAGE.csv: expersq and tenursq are exper^2 and tenure^2, the
\* columns no cell reads are 0
Row(w, e, x, t, f, m, lw) ==
    Fn([c \in DataColumns |->
        CASE c = "wage" -> w
          [] c = "educ" -> e
          [] c = "exper" -> x
          [] c = "tenure" -> t
          [] c = "female" -> f
          [] c = "married" -> m
          [] c = "lwage" -> lw
          [] c = "expersq" -> x * x
          [] c = "tenursq" -> t * t
          [] OTHER -> 0])

\* the first rows of the file as data.head() shows them, in small units:
\* a single woman, a married woman, a single man and a married man
HeadRows ==
    << Row(3, 1, 1, 0, 1, 0, 11),
       Row(3, 2, 2, 1, 1, 1, 12),
       Row(3, 1, 1, 0, 0, 0, 10),
       Row(6, 0, 3, 2, 0, 1, 18) >>

\* further rows of the file, each of which a data set has or has not
Pool ==
    << Row(5, 2, 1, 1, 0, 1, 17),
       Row(4, 2, 2, 1, 1, 0, 14),
       Row(2, 1, 1, 0, 1, 1, 7),
       Row(7, 3, 2, 1, 0, 0, 19),
       Row(1, 1, 3, 1, 1, 0, 2),
       Row(8, 3, 1, 2, 0, 1, 21),
       Row(4, 0, 1, 1, 0, 0, 13) >>

PoolRow(i) == Pool[((i - 1) % Len(Pool)) + 1]

RECURSIVE Pick(_, _)
\* the rows of the pool with an index in S, in the pool's order
Pick(S, n) ==
    IF n = 0 THEN <<>>
    ELSE IF n \in S THEN Append(Pick(S, n - 1), PoolRow(n))
    ELSE Pick(S, n - 1)

RECURSIVE SortedSeq(_)
SortedSeq(S) ==
    IF S = {} THEN <<>> ELSE <<Min(S)>> \o SortedSeq(S \ {Min(S)})

Levels(frame, col) == {frame[i][col] : i \in 1..Len(frame)}

DummyName(col, level) == col \o "_" \o ToString(level)

\* get_dummies_col as with drop_first=True: no column for the first value
get_dummies_drop_first(frame, col) ==
    LET lv == Levels(frame, col) \ {Min(Levels(frame, col))}
        names == {DummyName(col, l) : l \in lv}
        keep == Columns(frame) \ {col}
    IN  T([i \in 1..Len(frame) |->
            Fn([c \in keep \cup names |->
                IF c \in keep THEN frame[i][c]
                ELSE LET l == CHOOSE k \in lv : DummyName(col, k) = c
                     IN  IF frame[i][col] = l THEN 1 ELSE 0])])

\* pd.get_dummies(frame, columns=[col]): col is replaced by one 0/1 column
\* per value that occurs in it
get_dummies_col(frame, col) ==
    LET lv == Levels(frame, col)
        names == {DummyName(col, l) : l \in lv}
        keep == Columns(frame) \ {col}
    IN  T([i \in 1..Len(frame) |->
            Fn([c \in keep \cup names |->
                IF c \in keep THEN frame[i][c]
                ELSE LET l == CHOOSE k \in lv : DummyName(col, k) = c
                     IN  IF frame[i][col] = l THEN 1 ELSE 0])])

RECURSIVE get_dummies(_, _)
get_dummies(frame, columns) ==
    IF columns = <<>> THEN frame
    ELSE get_dummies(get_dummies_col(frame, columns[1]), Tail(columns))

\* assign_product with the sum of the two columns for their product
assign_sum(frame, new, a, b) ==
    T([i \in 1..Len(frame) |->
        Fn([c \in Columns(frame) \cup {new} |->
            IF c = new THEN frame[i][a] + frame[i][b]
            ELSE frame[i][c]])])

\* frame[new] = frame[a] * frame[b]: the element-wise product of two
\* columns, stored as a new column (or over an old one)
assign_product(frame, new, a, b) ==
    T([i \in 1..Len(frame) |->
        Fn([c \in Columns(frame) \cup {new} |->
            IF c = new THEN frame[i][a] * frame[i][b]
            ELSE frame[i][c]])])

(***************************************************************************)
(* Formulas.  A term is a sequence of factors, the intercept the empty     *)
(* one; a factor is a column, numeric or wrapped in C().  a*b stands for   *)
(* a + b + a:b.                                                            *)
(***************************************************************************)
Num(col) == [cat |-> FALSE, col |-> col]

Cat(col) == [cat |-> TRUE, col |-> col]

\* Star read as a + b, without the interaction
Star_plus(a, b) == << <<a>>, <<b>> >>

Star(a, b) == << <<a>>, <<b>>, <<a, b>> >>

Plus(cols) == T([k \in 1..Len(cols) |-> <<Num(cols[k])>>])

Intercept == << <<>> >>

WageFemaleControls == "wage ~ 1 + female + educ + exper + tenure"

WageFemale == "wage ~ 1 + female"

LwageGroups ==
    "lwage ~ 1 + marrmale + marrfem + singfem + educ + exper + expersq + tenure + tenursq"

LwageGroupsSingmale ==
    "lwage ~ 1 + marrmale + singfem + singmale + educ + exper + expersq + tenure + tenursq"

LwageInteraction ==
    "lwage ~ 1 + C(female)*C(married) + educ + exper + expersq + tenure + tenursq"

LwageSlopes == "lwage ~ 1 + C(female)*educ + exper + expersq + tenure + tenursq"

Controls == <<"educ", "exper", "expersq", "tenure", "tenursq">>

\* Lhs that takes lwage for the response of every formula
Lhs_lwage(formula) == "lwage"

\* the left-hand side of a formula
Lhs(formula) ==
    IF formula \in {WageFemaleControls, WageFemale} THEN "wage" ELSE "lwage"

\* Terms with all four group dummies in the two formulas that name them
Terms_all_groups(formula) ==
    CASE formula = WageFemaleControls ->
            Intercept \o Plus(<<"female", "educ", "exper", "tenure">>)
      [] formula = WageFemale ->
            Intercept \o Plus(<<"female">>)
      [] formula \in {LwageGroups, LwageGroupsSingmale} ->
            Intercept \o Plus(<<"marrmale", "marrfem", "singfem", "singmale">>)
                \o Plus(Controls)
      [] formula = LwageInteraction ->
            Intercept \o Plus(<<"female", "married">>) \o Plus(Controls)
      [] formula = LwageSlopes ->
            Intercept \o Plus(<<"female", "educ">>)
                \o Plus(<<"exper", "expersq", "tenure", "tenursq">>)

\* the terms of the right-hand side of a formula, in patsy's order
Terms(formula) ==
    CASE formula = WageFemaleControls ->
            Intercept \o Plus(<<"female", "educ", "exper", "tenure">>)
      [] formula = WageFemale ->
            Intercept \o Plus(<<"female">>)
      [] formula = LwageGroups ->
            Intercept \o Plus(<<"marrmale", "marrfem", "singfem">>) \o Plus(Controls)
      [] formula = LwageGroupsSingmale ->
            Intercept \o Plus(<<"marrmale", "singfem", "singmale">>) \o Plus(Controls)
      [] formula = LwageInteraction ->
            Intercept \o Star(Cat("female"), Cat("married")) \o Plus(Controls)
      [] formula = LwageSlopes ->
            Intercept \o Star(Cat("female"), Num("educ"))
                \o Plus(<<"exper", "expersq", "tenure", "tenursq">>)

\* the columns a formula reads
Variables(formula) ==
    {Lhs(formula)} \cup
    UNION {{Terms(formula)[k][j].col : j \in 1..Len(Terms(formula)[k])} :
              k \in 1..Len(Terms(formula))}

(***************************************************************************)
(* Design matrices, as patsy builds them for a model with an intercept: a  *)
(* numeric factor is its column, a categorical factor is treatment coded   *)
(* (one 0/1 column per level but the first), and a term of several         *)
(* factors is the product of its factors' columns.                         *)
(***************************************************************************)
FactorCodes(f, frame) ==
    IF f.cat
    THEN LET lv == Tail(SortedSeq(Levels(frame, f.col)))
         IN  T([k \in 1..Len(lv) |-> [cat |-> TRUE, col |-> f.col, level |-> lv[k]]])
    ELSE <<[cat |-> FALSE, col |-> f.col, level |-> 0]>>

RECURSIVE TermColumns(_, _)
TermColumns(term, frame) ==
    IF term = <<>> THEN << <<>> >>
    ELSE LET first == FactorCodes(term[1], frame)
             rest == TermColumns(Tail(term), frame)
         IN  T([k \in 1..(Len(first) * Len(rest)) |->
                <<first[((k - 1) \div Len(rest)) + 1]>>
                    \o rest[((k - 1) % Len(rest)) + 1]])

RECURSIVE DesignColumns(_, _)
DesignColumns(terms, frame) ==
    IF terms = <<>> THEN <<>>
    ELSE TermColumns(terms[1], frame) \o DesignColumns(Tail(terms), frame)

CodeName(code) ==
    IF code.cat
    THEN "C(" \o code.col \o ")[T." \o ToString(code.level) \o "]"
    ELSE code.col

RECURSIVE JoinNames(_)
JoinNames(column) ==
    IF Len(column) = 1 THEN CodeName(column[1])
    ELSE CodeName(column[1]) \o ":" \o JoinNames(Tail(column))

ColumnName(column) == IF column = <<>> THEN "Intercept" ELSE JoinNames(column)

CodeValue(code, row) ==
    IF code.cat THEN (IF row[code.col] = code.level THEN 1 ELSE 0)
    ELSE row[code.col]

\* ColumnValue that takes the first factor of a term for the whole term
ColumnValue_first(column, row) ==
    IF column = <<>> THEN 1 ELSE CodeValue(column[1], row)

RECURSIVE ColumnValue(_, _)
ColumnValue(column, row) ==
    IF column = <<>> THEN 1
    ELSE CodeValue(column[1], row) * ColumnValue(Tail(column), row)

\* the row of the design matrix for one observation
DesignRow(columns, row) == T([j \in 1..Len(columns) |-> ColumnValue(columns[j], row)])

\* smf.ols(formula, data = frame): the model, not yet fitted
ols(formula, frame) ==
    LET columns == DesignColumns(Terms(formula), frame)
    IN  [formula |-> formula,
         columns |-> columns,
         exog_names |-> T([j \in 1..Len(columns) |-> ColumnName(columns[j])]),
         exog |-> T([i \in 1..Len(frame) |-> DesignRow(columns, frame[i])]),
         endog |-> T([i \in 1..Len(frame) |-> frame[i][Lhs(formula)]])]

FracMatrix(M) == T([i \in 1..Len(M) |-> T([j \in 1..Len(M[i]) |-> FInt(M[i][j])])])

FracVector(v) == T([i \in 1..Len(v) |-> FInt(v[i])])

Index(names, n) == CHOOSE j \in 1..Len(names) : names[j] = n

\* fit with the params labelled in the reverse order of the columns
fit_reversed(model_eq) ==
    LET b == pinv_dot(FracMatrix(model_eq.exog), FracVector(model_eq.endog))
        names == model_eq.exog_names
    IN  [formula |-> model_eq.formula,
         columns |-> model_eq.columns,
         exog_names |-> names,
         exog |-> model_eq.exog,
         endog |-> model_eq.endog,
         params |-> Fn([n \in {names[j] : j \in 1..Len(names)} |->
                          b[Len(names) + 1 - Index(names, n)]])]

\* model_eq.fit(): the results, whose params are indexed by column name
fit(model_eq) ==
    LET b == pinv_dot(FracMatrix(model_eq.exog), FracVector(model_eq.endog))
        names == model_eq.exog_names
    IN  [formula |-> model_eq.formula,
         columns |-> model_eq.columns,
         exog_names |-> names,
         exog |-> model_eq.exog,
         endog |-> model_eq.endog,
         params |-> Fn([n \in {names[j] : j \in 1..Len(names)} |-> b[Index(names, n)]])]

\* model_est before any model is fitted
NoModel ==
    [formula |-> "", columns |-> <<>>, exog_names |-> <<>>, exog |-> <<>>,
     endog |-> <<>>, params |-> <<>>]

(***************************************************************************)
(* The cells.  data is bound by read_csv before any of them runs.          *)
(***************************************************************************)
DataSets(n) == {HeadRows \o Pick(S, n) : S \in SUBSET (1..n)}

Init ==
    /\ data \in DataSets(MaxExtra)
    /\ data_in = NoFrame
    /\ model_est = NoModel

\* a cell that fits formula on frame; patsy raises when the frame lacks a
\* column the formula names, and model_est then keeps its value
FitCell(formula, frame) ==
    /\ frame # NoFrame
    /\ Variables(formula) \subseteq Columns(frame)
    /\ model_est' = fit(ols(formula, frame))

\* model_eq = smf.ols("wage ~ 1 + female + educ + exper + tenure", data)
CellWageFemaleControls ==
    /\ FitCell(WageFemaleControls, data)
    /\ UNCHANGED <<data, data_in>>

\* model_eq = smf.ols("wage ~ 1 + female", data)
CellWageFemale ==
    /\ FitCell(WageFemale, data)
    /\ UNCHANGED <<data, data_in>>

\* a get_dummies cell that binds its result to data as well
get_dummies_cell_rebinds_data(frame) ==
    [data    |-> get_dummies(frame, <<"female", "married">>),
     data_in |-> get_dummies(frame, <<"female", "married">>)]

\* the frames the names data and data_in are bound to after the statement
\* data_in = pd.get_dummies(data, columns=['female','married']), run with
\* data bound to frame: get_dummies returns a new frame and leaves its
\* argument alone, and the statement binds data_in only
get_dummies_cell(frame) ==
    [data    |-> frame,
     data_in |-> get_dummies(frame, <<"female", "married">>)]

\* data_in = pd.get_dummies(data, columns=['female','married']); pandas
\* raises a KeyError when the frame lacks one of the columns
CellGetDummies ==
    /\ {"female", "married"} \subseteq Columns(data)
    /\ data' = get_dummies_cell(data).data
    /\ data_in' = get_dummies_cell(data).data_in
    /\ UNCHANGED model_est

\* group_dummies with the products of marrfem and marrmale exchanged
group_dummies_exchanged(frame) ==
    LET a == assign_product(frame, "marrfem", "female_0", "married_1")
        b == assign_product(a, "marrmale", "female_1", "married_1")
    IN  assign_product(b, "singfem", "female_1", "married_0")

\* group_dummies with singfem = 1 for every woman
group_dummies_all_women(frame) ==
    LET a == assign_product(frame, "marrfem", "female_1", "married_1")
        b == assign_product(a, "marrmale", "female_0", "married_1")
    IN  assign_product(b, "singfem", "female_1", "female_1")

\* data_in["marrfem"], data_in["marrmale"], data_in["singfem"]
group_dummies(frame) ==
    LET a == assign_product(frame, "marrfem", "female_1", "married_1")
        b == assign_product(a, "marrmale", "female_0", "married_1")
    IN  assign_product(b, "singfem", "female_1", "married_0")

CellGroupDummies ==
    /\ data_in # NoFrame
    /\ {"female_0", "female_1", "married_0", "married_1"} \subseteq Columns(data_in)
    /\ data_in' = group_dummies(data_in)
    /\ UNCHANGED <<data, model_est>>

\* model_eq = smf.ols('lwage ~ 1 + marrmale + marrfem + singfem + ...', data_in)
CellLwageGroups ==
    /\ FitCell(LwageGroups, data_in)
    /\ UNCHANGED <<data, data_in>>

\* data_in["singmale"] = ...; model_eq = smf.ols('lwage ~ 1 + marrmale +
\* singfem + singmale + ...', data_in): the column is assigned even when the
\* fit that follows raises
CellSingmale ==
    /\ data_in # NoFrame
    /\ {"female_0", "married_0"} \subseteq Columns(data_in)
    /\ data_in' = assign_product(data_in, "singmale", "female_0", "married_0")
    /\ IF Variables(LwageGroupsSingmale) \subseteq Columns(data_in')
       THEN model_est' = fit(ols(LwageGroupsSingmale, data_in'))
       ELSE UNCHANGED model_est
    /\ UNCHANGED data

\* model_eq = smf.ols('lwage ~ 1 + C(female)*C(married) + ...', data)
CellLwageInteraction ==
    /\ FitCell(LwageInteraction, data)
    /\ UNCHANGED <<data, data_in>>

\* model_eq = smf.ols('lwage ~ 1 + C(female)*educ + ...', data)
CellLwageSlopes ==
    /\ FitCell(LwageSlopes, data)
    /\ UNCHANGED <<data, data_in>>

Next ==
    \/ CellWageFemaleControls
    \/ CellWageFemale
    \/ CellGetDummies
    \/ CellGroupDummies
    \/ CellLwageGroups
    \/ CellSingmale
    \/ CellLwageInteraction
    \/ CellLwageSlopes

Spec == Init /\ [][Next]_vars

(***************************************************************************)
(* What the display cells and the claims read off a frame or a fit.        *)
(***************************************************************************)
Bound(frame) == frame # NoFrame

Fitted(formula) == model_est.formula = formula

Names(est) == {est.exog_names[j] : j \in 1..Len(est.exog_names)}

ParamsVector(est) == T([j \in 1..Len(est.exog_names) |-> est.params[est.exog_names[j]]])

RECURSIVE Dot(_, _, _)
\* b[1] x[1] + ... + b[n] x[n], b fractions and x integers
Dot(b, x, n) ==
    IF n = 0 THEN FZero ELSE FAdd(Dot(b, x, n - 1), FMul(b[n], FInt(x[n])))

\* the linear prediction of a fit for one row of a design matrix
predict(est, x) == The({Dot(b, x, Len(x)) : b \in {ParamsVector(est)}})

resid(est, i) == FSub(FInt(est.endog[i]), predict(est, est.exog[i]))

\* the column of the design matrix of a fit that has the given name
exog_col(est, i, name) == est.exog[i][Index(est.exog_names, name)]

\* frame.query("col == value")[target].describe(): the mean line
query_mean(frame, col, value, target) ==
    The({Frac(Sum([k \in 1..Len(rows) |-> rows[k][target]], Len(rows)), Len(rows))
         : rows \in {SelectSeq(frame, LAMBDA r : r[col] = value)}})

\* model_est.params['Intercept'] + model_est.params['female']
intercept_plus_female(est) == FAdd(est.params["Intercept"], est.params["female"])

\* model_est.params["singfem"] - model_est.params["marrfem"]
singfem_minus_marrfem(est) == FSub(est.params["singfem"], est.params["marrfem"])

Indicator(b) == IF b THEN 1 ELSE 0

SameControls(r, q) == \A k \in 1..Len(Controls) : r[Controls[k]] = q[Controls[k]]

(***************************************************************************)
(* C1.  After data_in = pd.get_dummies(data, columns=['female','married']) *)
(* every row has female_k = 1 exactly when its female value in data is k,  *)
(* and 0 otherwise, likewise married_k; so female_0 + female_1 = 1 and     *)
(* married_0 + married_1 = 1 on every row.                                 *)
(***************************************************************************)
OneHot(col) ==
    /\ {DummyName(col, 0), DummyName(col, 1)} \subseteq Columns(data_in)
    /\ \A i \in 1..Len(data) :
          /\ \A k \in {0, 1} :
                data_in[i][DummyName(col, k)] = Indicator(data[i][col] = k)
          /\ data_in[i][DummyName(col, 0)] + data_in[i][DummyName(col, 1)] = 1

OneHotConsistent ==
    Bound(data_in) =>
        /\ Len(data_in) = Len(data)
        /\ OneHot("female")
        /\ OneHot("married")

OneHotWitness ==
    /\ Bound(data_in)
    /\ \E i, j \in 1..Len(data_in) :
          /\ data_in[i]["female_1"] = 1 /\ data_in[i]["married_0"] = 1
          /\ data_in[j]["female_0"] = 1 /\ data_in[j]["married_1"] = 1

(***************************************************************************)
(* C2.  Each group dummy marks the group it is named for: marrmale = 1 iff *)
(* female = 0 and married = 1, marrfem = 1 iff female = 1 and married = 1, *)
(* singfem = 1 iff female = 1 and married = 0, and each is 0 otherwise.    *)
(***************************************************************************)
HasGroupDummies ==
    Bound(data_in) /\ {"marrmale", "marrfem", "singfem"} \subseteq Columns(data_in)

GroupDummiesMarkTheirGroup ==
    HasGroupDummies =>
        \A i \in 1..Len(data) :
            /\ data_in[i]["marrmale"] =
                  Indicator(data[i]["female"] = 0 /\ data[i]["married"] = 1)
            /\ data_in[i]["marrfem"] =
                  Indicator(data[i]["female"] = 1 /\ data[i]["married"] = 1)
            /\ data_in[i]["singfem"] =
                  Indicator(data[i]["female"] = 1 /\ data[i]["married"] = 0)

GroupDummiesWitness ==
    /\ HasGroupDummies
    /\ \E i, j, k \in 1..Len(data_in) :
          /\ data_in[i]["marrmale"] = 1
          /\ data_in[j]["marrfem"] = 1
          /\ data_in[k]["singfem"] = 1

(***************************************************************************)
(* C3.  Single men are the base group of lwage ~ 1 + marrmale + marrfem +  *)
(* singfem + ...: on every row of the fitted design the three group        *)
(* dummies are all 0 if and only if the row has female = 0 and married = 0.*)
(***************************************************************************)
SingleMenAreBaseGroup ==
    Fitted(LwageGroups) =>
        /\ {"marrmale", "marrfem", "singfem"} \subseteq Names(model_est)
        /\ "singmale" \notin Names(model_est)
        /\ \A i \in 1..Len(data) :
              (/\ exog_col(model_est, i, "marrmale") = 0
               /\ exog_col(model_est, i, "marrfem") = 0
               /\ exog_col(model_est, i, "singfem") = 0)
              <=> (data[i]["female"] = 0 /\ data[i]["married"] = 0)

BaseGroupWitness ==
    /\ Fitted(LwageGroups)
    /\ \E i, j \in 1..Len(data) :
          /\ data[i]["female"] = 0 /\ data[i]["married"] = 0
          /\ exog_col(model_est, j, "marrmale") = 1

(***************************************************************************)
(* C4.  In the simple regression wage ~ 1 + female the fitted intercept is *)
(* the average wage for men: the mean of wage over the rows of data with   *)
(* female = 0 (both groups are non-empty in every data set).               *)
(***************************************************************************)
InterceptIsMeanForMen ==
    Fitted(WageFemale) =>
        model_est.params["Intercept"] = query_mean(data, "female", 0, "wage")

InterceptWitness ==
    /\ Fitted(WageFemale)
    /\ model_est.params["female"][1] # 0
    /\ \E i \in 1..Len(data) : data[i]["female"] = 0 /\ resid(model_est, i)[1] # 0

(***************************************************************************)
(* C5.  After fitting wage ~ 1 + female, params['Intercept'] +             *)
(* params['female'] is the average wage for women: the mean of wage over   *)
(* the rows of data with female = 1, as data.query("female == 1")          *)
(* .describe() reports it.                                                 *)
(***************************************************************************)
InterceptPlusFemaleIsMeanForWomen ==
    Fitted(WageFemale) =>
        intercept_plus_female(model_est) = query_mean(data, "female", 1, "wage")

MeanForWomenWitness ==
    /\ Fitted(WageFemale)
    /\ intercept_plus_female(model_est) # model_est.params["Intercept"]
    /\ \E i \in 1..Len(data) : data[i]["female"] = 1 /\ resid(model_est, i)[1] # 0

(***************************************************************************)
(* C6.  After fitting wage ~ 1 + female + educ + exper + tenure, the value *)
(* params["female"] is the average wage for women in the sample, as the    *)
(* markdown above the cell that shows it says.                             *)
(***************************************************************************)
FemaleCoefficientIsMeanForWomen ==
    Fitted(WageFemaleControls) =>
        model_est.params["female"] = query_mean(data, "female", 1, "wage")

(***************************************************************************)
(* C7.  The intercept is common to all groups and cancels in differences:  *)
(* under the fitted lwage ~ 1 + marrmale + marrfem + singfem + ..., for a  *)
(* single woman and a married woman with the same educ, exper, expersq,    *)
(* tenure and tenursq the linear predictions differ by params['singfem'] - *)
(* params['marrfem'].                                                      *)
(***************************************************************************)
IsGroup(r, f, m) == r["female"] = f /\ r["married"] = m

SingleAndMarriedWoman(i, j) ==
    /\ IsGroup(data[i], 1, 0)
    /\ IsGroup(data[j], 1, 1)
    /\ SameControls(data[i], data[j])

GroupDifferenceIsCoefficientDifference ==
    Fitted(LwageGroups) =>
        \A i, j \in 1..Len(data) :
            SingleAndMarriedWoman(i, j) =>
                FSub(predict(model_est, model_est.exog[i]),
                     predict(model_est, model_est.exog[j]))
                    = singfem_minus_marrfem(model_est)

GroupDifferenceWitness ==
    /\ Fitted(LwageGroups)
    /\ \E i, j \in 1..Len(data) : SingleAndMarriedWoman(i, j)
    /\ singfem_minus_marrfem(model_est)[1] # 0
    /\ model_est.params["Intercept"][1] # 0

(***************************************************************************)
(* C8.  lwage ~ 1 + C(female)*C(married) + ... fitted on data is the model *)
(* with the manual dummies fitted on data_in: its design columns are       *)
(* female, married and female*married, and on every row its linear         *)
(* predictor is that of the manual model with marrmale = C(married)[T.1],  *)
(* singfem = C(female)[T.1], marrfem = C(female)[T.1] + C(married)[T.1] +  *)
(* C(female)[T.1]:C(married)[T.1] and the other coefficients unchanged; so *)
(* the two fits have the same fitted values.                               *)
(***************************************************************************)
FemaleT == "C(female)[T.1]"

MarriedT == "C(married)[T.1]"

FemaleMarriedT == "C(female)[T.1]:C(married)[T.1]"

\* the coefficient of a column of the manual model, from the params p of
\* the interaction model
GroupCoefficient(p, name) ==
    CASE name = "marrmale" -> p[MarriedT]
      [] name = "singfem" -> p[FemaleT]
      [] name = "marrfem" -> FAdd(p[FemaleT], FAdd(p[MarriedT], p[FemaleMarriedT]))
      [] OTHER -> p[name]

SamePredictor(manual, est) ==
    The({\A i \in 1..Len(data) :
            /\ Dot(b, manual.exog[i], Len(b)) = predict(est, est.exog[i])
            /\ predict(manual, manual.exog[i]) = predict(est, est.exog[i])
         : b \in {T([j \in 1..Len(manual.exog_names) |->
                      GroupCoefficient(est.params, manual.exog_names[j])])}})

InteractionFormulaIsGroupModel ==
    (Fitted(LwageInteraction) /\ HasGroupDummies) =>
        /\ Names(model_est) =
              {"Intercept", FemaleT, MarriedT, FemaleMarriedT}
                  \cup {Controls[k] : k \in 1..Len(Controls)}
        /\ \A i \in 1..Len(data) :
              /\ exog_col(model_est, i, FemaleT) = data[i]["female"]
              /\ exog_col(model_est, i, MarriedT) = data[i]["married"]
              /\ exog_col(model_est, i, FemaleMarriedT) =
                    data[i]["female"] * data[i]["married"]
        /\ SamePredictor(fit(ols(LwageGroups, data_in)), model_est)

InteractionWitness ==
    /\ Fitted(LwageInteraction)
    /\ HasGroupDummies
    /\ model_est.params[FemaleMarriedT][1] # 0
    /\ \E i \in 1..Len(data) : resid(model_est, i)[1] # 0

(***************************************************************************)
(* C9.  lwage ~ 1 + C(female)*educ + ... has the design columns female,    *)
(* educ and female*educ, the last equal to educ when female = 1 and to 0   *)
(* when female = 0; so one more unit of educ changes the linear prediction *)
(* by the coefficient of educ for a man and by that plus the coefficient   *)
(* of the interaction for a woman, and at educ = 0 a woman's prediction is *)
(* a man's plus the coefficient of female.                                 *)
(***************************************************************************)
FemaleEducT == "C(female)[T.1]:educ"

\* the row r as an observation with the given female and educ
Observation(r, f, e) == [r EXCEPT !["female"] = f, !["educ"] = e]

prediction(est, r) == predict(est, DesignRow(est.columns, r))

SlopeOfEduc(est, f) ==
    IF f = 1 THEN FAdd(est.params["educ"], est.params[FemaleEducT])
    ELSE est.params["educ"]

DifferentSlopes ==
    Fitted(LwageSlopes) =>
        /\ {FemaleT, "educ", FemaleEducT} \subseteq Names(model_est)
        /\ \A i \in 1..Len(data) :
              /\ exog_col(model_est, i, FemaleT) = data[i]["female"]
              /\ exog_col(model_est, i, "educ") = data[i]["educ"]
              /\ exog_col(model_est, i, FemaleEducT) =
                    (IF data[i]["female"] = 1 THEN data[i]["educ"] ELSE 0)
        /\ \A i \in 1..Len(data) : \A f \in {0, 1} : \A e \in Levels(data, "educ") :
              FSub(prediction(model_est, Observation(data[i], f, e + 1)),
                   prediction(model_est, Observation(data[i], f, e)))
                  = SlopeOfEduc(model_est, f)
        /\ \A i \in 1..Len(data) :
              FSub(prediction(model_est, Observation(data[i], 1, 0)),
                   prediction(model_est, Observation(data[i], 0, 0)))
                  = model_est.params[FemaleT]

DifferentSlopesWitness ==
    /\ Fitted(LwageSlopes)
    /\ model_est.params[FemaleEducT][1] # 0
    /\ model_est.params[FemaleT][1] # 0
    /\ \E i \in 1..Len(data) : exog_col(model_est, i, FemaleEducT) > 1

(***************************************************************************)
(* C10.  Every fit returns a solution of the normal equations X'X b = X'y: *)
(* the residuals y - Xb are orthogonal to every column of the design, and, *)
(* the intercept being one of the columns, they sum to zero.               *)
(***************************************************************************)
Orthogonal(est, e) ==
    /\ \A j \in 1..Len(est.exog_names) :
          Dot(e, Column(est.exog, j), Len(e)) = FZero
    /\ "Intercept" \in Names(est)
    /\ FSum(e, Len(e)) = FZero

NormalEquations ==
    model_est # NoModel =>
        The({Orthogonal(model_est, e)
             : e \in {T([i \in 1..Len(model_est.endog) |-> resid(model_est, i)])}})

NormalEquationsWitness ==
    /\ model_est # NoModel
    /\ Len(model_est.exog_names) > Len(model_est.exog)
    /\ \E i \in 1..Len(model_est.endog) : resid(model_est, i)[1] # 0

(***************************************************************************)
(* C11.  The original frame is never modified: no cell changes data, so    *)
(* after any sequence of cells data still has its 24 original columns,     *)
(* with the raw columns female and married holding 0 or 1 on every row,    *)
(* and the fits on data with C(female)*C(married) and C(female)*educ find  *)
(* every column their formulas name.                                       *)
(***************************************************************************)
OriginalFrame ==
    /\ Columns(data) = DataColumns
    /\ Cardinality(Columns(data)) = 24
    /\ \A i \in 1..Len(data) :
          data[i]["female"] \in {0, 1} /\ data[i]["married"] \in {0, 1}
    /\ Variables(LwageInteraction) \subseteq Columns(data)
    /\ Variables(LwageSlopes) \subseteq Columns(data)

DataIsNeverModified == []OriginalFrame /\ [][data' = data]_vars

DataIsNeverModifiedWitness ==
    /\ HasGroupDummies
    /\ "singmale" \in Columns(data_in)
    /\ Columns(data_in) \cap {"female", "married"} = {}
    /\ Fitted(LwageInteraction)
    /\ OriginalFrame

(***************************************************************************)
(* C12.  No fitted model falls into the dummy-variable trap: a fit whose   *)
(* formula names group dummies has the intercept and exactly three of the  *)
(* four group dummies (marrmale, marrfem, singfem, or marrmale, singfem,   *)
(* singmale); on every row of the omitted group all included dummies are   *)
(* 0, and, the omitted group having a row, the included dummy columns do   *)
(* not sum to the intercept column.                                        *)
(***************************************************************************)
GroupDummyNames == {"marrmale", "marrfem", "singfem", "singmale"}

IncludedDummies(est) == Names(est) \cap GroupDummyNames

\* the rows of the group that a group dummy stands for
InGroupOf(name, r) ==
    CASE name = "marrmale" -> IsGroup(r, 0, 1)
      [] name = "marrfem"  -> IsGroup(r, 1, 1)
      [] name = "singfem"  -> IsGroup(r, 1, 0)
      [] name = "singmale" -> IsGroup(r, 0, 0)

InOmittedGroup(est, r) ==
    \E name \in GroupDummyNames \ IncludedDummies(est) : InGroupOf(name, r)

\* the sum of the included group dummies on row i of the design
DummySum(est, i) ==
    Sum(T([j \in 1..Len(est.exog_names) |->
              IF est.exog_names[j] \in GroupDummyNames THEN est.exog[i][j] ELSE 0]),
        Len(est.exog_names))

NoDummyVariableTrap ==
    (model_est # NoModel /\ IncludedDummies(model_est) # {}) =>
        /\ "Intercept" \in Names(model_est)
        /\ IncludedDummies(model_est) \in
              {{"marrmale", "marrfem", "singfem"}, {"marrmale", "singfem", "singmale"}}
        /\ Len(model_est.exog_names) = Cardinality(Names(model_est))
        /\ \A i \in 1..Len(data) :
              InOmittedGroup(model_est, data[i]) =>
                  \A name \in IncludedDummies(model_est) :
                      exog_col(model_est, i, name) = 0
        /\ (\E i \in 1..Len(data) : InOmittedGroup(model_est, data[i])) =>
              \E i \in 1..Len(data) :
                  DummySum(model_est, i) # exog_col(model_est, i, "Intercept")

NoDummyVariableTrapWitness ==
    /\ Fitted(LwageGroupsSingmale)
    /\ IncludedDummies(model_est) = {"marrmale", "singfem", "singmale"}
    /\ \E i \in 1..Len(data) :
          /\ IsGroup(data[i], 1, 1)
          /\ DummySum(model_est, i) = 0
          /\ exog_col(model_est, i, "Intercept") = 1
    /\ \E i \in 1..Len(data) : DummySum(model_est, i) = 1

====
